---- MODULE Spec2Model ----
(***************************************************************************)
(* Model of the iterative sparse-cloud cleaning of SCC.py:                 *)
(* NewWindow.executeStep (the per-criterion loop: sample, threshold        *)
(* search, removal, camera optimization, convergence test, terminal        *)
(* blocks) and NewWindow.updateTreeEntries (the report).                   *)
(*                                                                         *)
(* Numbers.  Error values, thresholds and RMS values are floats in the     *)
(* program; here they are small naturals.  target_percent is kept in       *)
(* hundredths of a percent (2050 stands for 20.5), so that int(),          *)
(* (100 - p) / 100 and the 0.01 scan step are integer arithmetic.  The     *)
(* scan fraction n = N / mfac is carried as the integer N.                 *)
(*                                                                         *)
(* The reconstruction engine (Metashape) is outside the repository.  Its   *)
(* state is the bag of criterion values of the valid points, the number    *)
(* of invalid points still held in the point array, and the value calcRMS  *)
(* computes.  Filter.removePoints(threshold) invalidates the points whose  *)
(* value is >= threshold (the interface contract of the specification);    *)
(* optimizeCameras changes the values of the surviving points and the RMS  *)
(* nondeterministically; Filter.values are computed by Filter.init and     *)
(* kept by the Filter object; tie_points.points is a live view.            *)
(***************************************************************************)
EXTENDS Integers, Naturals, Sequences, FiniteSets, TLC

\* ------------------------------------------------------------------ bounds
MaxPts == 12
MaxVal == 2
MaxRms == 2
MaxIter == 2
MaxCams == 2            \* cameras of a chunk
MaxRefs == 2            \* scale bars, markers and referenced cameras of a chunk, together
SmallLen == 3

\* ------------------------------------------------------- program constants
mfac == 100
Slack == 10

None == -1

Values == 0..MaxVal
\* target_percent in hundredths of a percent
Percents == {0, 500, 2050, 10000}
Thresholds == {0, 1, 2}
PercentileSteps == {"Reconstruction Uncertainty", "Projection Accuracy", "Reprojection Error"}
RMSEStep == "Reprojection Error (RMSE Minimization)"
Steps == PercentileSteps \cup {RMSEStep}

VARIABLES
    valid_values,     \* chunk: bag of the criterion values of the valid points
    n_invalid,        \* chunk: invalid points still held in the point array
    chunk_rms,        \* chunk: the value calcRMS computes while observations exist
    cameras,          \* chunk.cameras: type, pose and projection counts of each camera
    nproj,            \* what getNumProjectionsLowerThan returned, or None
    scalebars,        \* chunk.scalebars
    markers,          \* chunk.markers
    stat_begin,       \* the reference statistics taken in the first iteration, or <<>>
    stat_final,       \* the reference statistics passed to updateTreeEntries, or <<>>
    fields,           \* the texts updateTreeEntries set for them, or <<>>
    rval,             \* self.rval, the answer of the confirmation dialog: "None", "True", "False"
    auto_run,         \* the steps whose auto-run box is checked
    settings,         \* the fields of each step's tab: <<target_percent, target_threshold, max_iter>>
    auto_index,       \* position of runAllSteps in its loop (1..4, 5 past it), 0 outside it
    executed,         \* the steps runAllSteps has called executeStep for, in call order
    recorded,         \* the steps after which updateChunkMemoryTree has run, in call order
    chunk_memory,     \* self.chunk_memory
    files,            \* the session file in the document's directory and in the working directory
    cwd,              \* the working directory: "document" (the document's directory) or "elsewhere"
    written,          \* the chunk memory as of the latest writeChunkMemory2File, or <<>>
    pc,               \* "idle", "loop", "done", "failed"; "search", "searched";
                      \* "sampled"; "cameras", "counted"
    step, target_percent, target_threshold, max_iter,
    rerun,            \* the run was started again right after a run that ended converged
    tiepoint_accuracy, \* chunk.tiepoint_accuracy: "chunk" (as found) or "step" (the step's field)
    it, fin, threshold, npoint_list,
    n_points_begin, rms_begin, threshold_begin, n_0,
    n_points_left, rms_final, threshold_final, rev_pts,
    report,           \* what updateTreeEntries wrote, or <<>>
    warned,           \* the "Insuffiecient number of iterations" warning was printed
    error,            \* the uncaught exception that ended the run, or "none"
    sampled,          \* list_values_valid of the latest iteration
    removed,          \* points invalidated by the latest iteration
    optimized,        \* optimizeCameras calls of the latest iteration
    n_removed_run,    \* points invalidated since the run began
    n_optimized_run   \* optimizeCameras calls since the run began

chunkvars == <<valid_values, n_invalid, chunk_rms>>
camvars == <<cameras, nproj>>
refvars == <<scalebars, markers, stat_begin, stat_final, fields>>
autovars == <<rval, auto_run, settings, auto_index, executed, recorded>>
memvars == <<chunk_memory, files, cwd, written>>
cfgvars == <<step, target_percent, target_threshold, max_iter, rerun, tiepoint_accuracy>>
loopvars == <<it, fin, threshold, npoint_list>>
beginvars == <<n_points_begin, rms_begin, threshold_begin, n_0>>
finalvars == <<n_points_left, rms_final, threshold_final, rev_pts, report, warned>>
roundvars == <<sampled, removed, optimized, n_removed_run, n_optimized_run>>
vars == <<chunkvars, camvars, refvars, autovars, memvars, pc, cfgvars, loopvars, beginvars, finalvars, error, roundvars>>

\* ------------------------------------------------------------------ helpers
Rep(v, n) == [i \in 1..n |-> v]

RECURSIVE SortFrom(_, _)
SortFrom(bag, v) ==
    IF v > MaxVal THEN <<>> ELSE Rep(v, bag[v]) \o SortFrom(bag, v + 1)

\* A sample that leaves out the points whose value is 0; C15 is checked to
\* tell it from SortedValid.
SortedValidNonZero(bag) == SortFrom(bag, 1)

\* list_values_valid after .sort(): the valid points' values, ascending
SortedValid(bag) == SortFrom(bag, 0)

RECURSIVE SumFrom(_, _)
SumFrom(bag, v) == IF v > MaxVal THEN 0 ELSE bag[v] + SumFrom(bag, v + 1)

BagSize(bag) == SumFrom(bag, 0)

EmptyBag == [v \in Values |-> 0]

\* all bags of at most n values
BagsUpTo(n) == {b \in [Values -> 0..n] : BagSize(b) <= n}

\* max(list) of a non-empty ascending list
MaxOf(D) == D[Len(D)]

\* len([val for val in list if val > t])
CountAbove(D, t) == Cardinality({i \in 1..Len(D) : D[i] > t})

\* ------------------------------------------------- threshold search (4.2)
\* The index expressions are evaluated in binary64.  For the lengths of this
\* model (up to 130) the float result differs from the exact floor only at
\* the <<len, N>> pairs below, where it is one lower.
ScanRoundsDown ==
    { <<50, 5800>>, <<90, 7000>>, <<100, 2900>>, <<100, 5700>>, <<100, 5800>>,
      <<125, 560>>, <<125, 1120>>, <<125, 2240>>, <<125, 2320>>, <<125, 3280>>,
      <<125, 4480>>, <<125, 4640>>, <<125, 6560>>, <<125, 7760>>, <<125, 8080>>,
      <<125, 8960>>, <<125, 9280>> }

BackoffRoundsDown ==
    { <<125, 319>>, <<125, 639>>, <<125, 879>>, <<125, 1279>>, <<125, 3519>>,
      <<125, 3919>>, <<125, 4319>>, <<125, 4719>>, <<125, 5119>>, <<125, 5519>>,
      <<125, 5919>>, <<125, 6319>> }

\* int(len(list_values_valid) * (n / 100)) with n = N / mfac
ScanIndex(L, N) ==
    (L * N) \div (100 * mfac) - (IF <<L, N>> \in ScanRoundsDown THEN 1 ELSE 0)

\* int(len(list_values_valid) * (n + (1 / mfac)) / 100) with n = N / mfac
BackoffIndex(L, N) ==
    (L * (N + 1)) \div (100 * mfac) - (IF <<L, N>> \in BackoffRoundsDown THEN 1 ELSE 0)

\* A scan that goes one whole percent deeper; C18 is checked to tell it from
\* ScanLow.
ScanLowOneDeeper(P) == 100 * mfac - (P \div 100 + 1) * mfac

\* first value of range(100*mfac - int(target_percent)*mfac, 100*mfac, 1)
ScanLow(P) == 100 * mfac - (P \div 100) * mfac

SetMax(S) == CHOOSE x \in S : \A y \in S : y <= x

\* The loop body reads the candidate N only through these two indices.
IndexPair(L, N) == <<ScanIndex(L, N), BackoffIndex(L, N)>>

\* the list lengths that occur
\* list lengths at which the float arithmetic of the index expressions
\* rounds below the exact quotient
FloatLens == {50, 90, 100, 125}

Lens == (1..MaxPts) \cup FloatLens \cup (1..(2 * Slack + 5))

\* For each length, the candidates at which the index pair changes, in scan
\* order (downward from 100*mfac - 1): the first candidate of every block of
\* consecutive candidates with equal indices.  The loop body does the same
\* for every candidate of a block, and doing it twice changes nothing, so a
\* block is represented by its first candidate.
ScanStops ==
    [L \in Lens |->
        {N \in 0..(100 * mfac - 1) :
            N = 100 * mfac - 1 \/ IndexPair(L, N + 1) # IndexPair(L, N)}]

\* threshold = list_values_valid[target]; if threshold < target_threshold:
HitAt(D, t, N) == D[ScanIndex(Len(D), N) + 1] < t

\* a hit whose back-off lookup does not raise IndexError: the scan breaks
BreakAt(D, t, N) == HitAt(D, t, N) /\ BackoffIndex(Len(D), N) < Len(D)

\* the whole-percent candidates of the scan
PercentStarts(P) == {k * mfac : k \in (100 - P \div 100)..99}

\* the block starts among the mfac candidates from h upward
StopsIn(L, h) == {N \in ScanStops[L] : h <= N /\ N < h + mfac}

\* The candidate at which the scan breaks: in scan order (downward) the
\* first one with BreakAt, looked for percent by percent; None without one.
FirstBreak(D, P, t) ==
    LET hs == {h \in PercentStarts(P) : \E N \in StopsIn(Len(D), h) : BreakAt(D, t, N)}
    IN  IF hs = {} THEN None
        ELSE SetMax({N \in StopsIn(Len(D), SetMax(hs)) : BreakAt(D, t, N)})

\* for n in reversed(range(100*mfac - int(target_percent)*mfac, 100*mfac, 1))
\* over the ascending list D (lines 1242-1262).  A candidate below
\* target_threshold whose back-off index is valid selects the back-off value,
\* sets fin and breaks; one whose back-off lookup raises IndexError sets
\* threshold = None, fin = True and the loop goes on with the next candidate.
\* Without a break the loop ends after the candidate ScanLow(P).  An empty
\* list raises IndexError at the first candidate, outside the try.  th0, fin0
\* are the values the variables hold when the scan starts.
PercentileSearch(D, P, t, th0, fin0) ==
    IF ScanLow(P) > 100 * mfac - 1
    THEN [threshold |-> th0, fin |-> fin0, error |-> "none"]
    ELSE IF Len(D) = 0
    THEN [threshold |-> th0, fin |-> fin0, error |-> "IndexError"]
    ELSE IF FirstBreak(D, P, t) # None
    THEN [threshold |-> D[BackoffIndex(Len(D), FirstBreak(D, P, t)) + 1],
          fin |-> TRUE, error |-> "none"]
    ELSE [threshold |-> IF HitAt(D, t, ScanLow(P)) THEN None
                        ELSE D[ScanIndex(Len(D), ScanLow(P)) + 1],
          fin |-> fin0 \/ \E N \in ScanStops[Len(D)] : N >= ScanLow(P) /\ HitAt(D, t, N),
          error |-> "none"]

\* A cut index that counts target_percent from the front of the list instead
\* of from its end; C5 is checked to tell it from RMSEIndex.
RMSEIndexFromFront(L, P) == (L * P) \div (100 * mfac)

\* int(len(list_values_valid) * ((100 - target_percent) / 100))
RMSEIndex(L, P) == (L * (100 * mfac - P)) \div (100 * mfac)

\* A threshold choice that also cuts when the RMS equals target_threshold;
\* C6 is checked to tell it from RMSESearch.
RMSESearchAtTarget(D, P, t, rms, th0) ==
    IF rms >= t
    THEN IF RMSEIndex(Len(D), P) < Len(D)
         THEN [threshold |-> D[RMSEIndex(Len(D), P) + 1], error |-> "none"]
         ELSE [threshold |-> th0, error |-> "IndexError"]
    ELSE [threshold |-> th0, error |-> "none"]

\* The RMSE variant's choice of threshold: rms is calcRMS() at the start of
\* the iteration.
RMSESearch(D, P, t, rms, th0) ==
    IF rms > t
    THEN IF RMSEIndex(Len(D), P) < Len(D)
         THEN [threshold |-> D[RMSEIndex(Len(D), P) + 1], error |-> "none"]
         ELSE [threshold |-> th0, error |-> "IndexError"]
    ELSE [threshold |-> th0, error |-> "none"]

\* if threshold:
Truthy(th) == th # None /\ th # 0


\* ------------------------------------------- specification of the search
\* The inputs of one percentile-descent search: short lists over all values,
\* and two-valued lists of the lengths in FloatLens.
SearchDists ==
    (BagsUpTo(SmallLen) \ {EmptyBag}) \cup
    UNION { { [v \in Values |-> IF v = 1 THEN k ELSE IF v = 2 THEN L - k ELSE 0] :
                k \in 0..L } : L \in FloatLens }

\* outside runAllSteps, no dialog answered, fields not read
NoAutoRun ==
    /\ rval = "None" /\ auto_run = {} /\ settings = <<>>
    /\ auto_index = 0 /\ executed = <<>> /\ recorded = <<>>

\* no chunk memory, no session file
NoMemory ==
    /\ chunk_memory = <<>> /\ files = <<>> /\ cwd = "document" /\ written = <<>>

NoRunState ==
    /\ it = 0 /\ fin = FALSE /\ threshold = None /\ npoint_list = <<>>
    /\ n_points_begin = None /\ rms_begin = None /\ threshold_begin = None /\ n_0 = None
    /\ n_points_left = None /\ rms_final = None /\ threshold_final = None
    /\ rev_pts = <<>> /\ report = <<>> /\ warned = FALSE
    /\ error = "none"
    /\ sampled = <<>> /\ removed = 0 /\ optimized = 0
    /\ n_removed_run = 0 /\ n_optimized_run = 0

SearchInit ==
    /\ valid_values \in SearchDists
    /\ n_invalid = 0
    /\ NoAutoRun /\ NoMemory
    /\ scalebars = <<>> /\ markers = <<>>
    /\ stat_begin = <<>> /\ stat_final = <<>> /\ fields = <<>>
    /\ cameras = <<>> /\ nproj = None
    /\ chunk_rms = 1
    /\ pc = "search"
    /\ step = "Reprojection Error"
    /\ target_percent \in Percents
    /\ target_threshold \in Thresholds
    /\ max_iter = 1
    /\ rerun = FALSE
    /\ tiepoint_accuracy = "chunk"
    /\ NoRunState

\* Lines 1205-1265 of the first iteration of a percentile step: sample, sort,
\* scan.
ThresholdSearch ==
    /\ pc = "search"
    /\ LET D == SortedValid(valid_values)
           r == PercentileSearch(D, target_percent, target_threshold, threshold, fin)
       IN  /\ sampled' = D
           /\ threshold' = r.threshold
           /\ fin' = r.fin
           /\ error' = r.error
    /\ pc' = "searched"
    /\ UNCHANGED <<camvars, refvars, autovars, memvars, chunkvars, cfgvars, it, npoint_list, beginvars, finalvars,
                   removed, optimized, n_removed_run, n_optimized_run>>

SearchNext == ThresholdSearch

SpecSearch == SearchInit /\ [][SearchNext]_vars


\* ------------------------------------- specification of the scan on ramps
\* Sorted lists without ties, i + off at position i, among them 1..10.
RampLists == { [i \in 1..L |-> i + off] : L \in 1..MaxPts, off \in 0..MaxVal }

RampPercents == {1000, 2000, 2050, 5000}

RampThresholds == 1..MaxPts

RampInit ==
    /\ valid_values = EmptyBag
    /\ n_invalid = 0
    /\ NoAutoRun /\ NoMemory
    /\ scalebars = <<>> /\ markers = <<>>
    /\ stat_begin = <<>> /\ stat_final = <<>> /\ fields = <<>>
    /\ cameras = <<>> /\ nproj = None
    /\ chunk_rms = 1
    /\ pc = "sampled"
    /\ step = "Reprojection Error"
    /\ target_percent \in RampPercents
    /\ target_threshold \in RampThresholds
    /\ max_iter = 1
    /\ rerun = FALSE
    /\ tiepoint_accuracy = "step"
    /\ it = 0 /\ fin = FALSE /\ threshold = None /\ npoint_list = <<>>
    /\ n_points_begin = None /\ rms_begin = None /\ threshold_begin = None /\ n_0 = None
    /\ n_points_left = None /\ rms_final = None /\ threshold_final = None
    /\ rev_pts = <<>> /\ report = <<>> /\ warned = FALSE
    /\ error = "none"
    /\ sampled \in RampLists
    /\ removed = 0 /\ optimized = 0
    /\ n_removed_run = 0 /\ n_optimized_run = 0

\* Lines 1239-1265 of the first iteration of a percentile step, on the list
\* already sampled and sorted.
RampSearch ==
    /\ pc = "sampled"
    /\ LET r == PercentileSearch(sampled, target_percent, target_threshold, threshold, fin)
       IN  /\ threshold' = r.threshold
           /\ fin' = r.fin
           /\ error' = r.error
    /\ pc' = "searched"
    /\ UNCHANGED <<camvars, refvars, autovars, memvars, chunkvars, cfgvars, it, npoint_list, beginvars, finalvars,
                   sampled, removed, optimized, n_removed_run, n_optimized_run>>

RampNext == RampSearch

SpecRamp == RampInit /\ [][RampNext]_vars


\* --------------------------------- specification of the low-projection count
\* if nprojections < 100:
MinProjections == 100

CameraTypes == {"Regular", "Keyframe"}

\* projection counts on either side of the limit
ProjCounts == {0, MinProjections - 1, MinProjections}

\* A camera: its type, whether it has a transform (a pose), the number of its
\* projections whose track has a valid point, and the number of its other
\* projections (track without a point, or point invalid).
Cameras ==
    [type : CameraTypes, transform : BOOLEAN, valid_proj : ProjCounts, other_proj : {0, 1}]

RECURSIVE SeqsUpTo(_, _)
SeqsUpTo(S, n) ==
    IF n = 0 THEN {<<>>}
    ELSE SeqsUpTo(S, n - 1) \cup {Append(q, x) : q \in SeqsUpTo(S, n - 1), x \in S}

\* The cameras the loop does not skip: not a keyframe, and with a transform
\* (lines 1529-1534); their number is cameras_with_proj.
Measured(cams) ==
    {i \in 1..Len(cams) : cams[i].type # "Keyframe" /\ cams[i].transform}

\* nprojections of a camera the loop does not skip (lines 1535-1543): the
\* projections with point_id < 0 or an invalid point are passed over
nprojections(cam) == cam.valid_proj

\* getNumProjectionsLowerThan (lines 1507-1553): sums counts the measured
\* cameras with nprojections < 100, then len(chunk.cameras) -
\* cameras_with_proj is added to it.
getNumProjectionsLowerThan(cams) ==
    Cardinality({i \in Measured(cams) : nprojections(cams[i]) < MinProjections})
        + (Len(cams) - Cardinality(Measured(cams)))

CamerasInit ==
    /\ valid_values = EmptyBag
    /\ n_invalid = 0
    /\ NoAutoRun /\ NoMemory
    /\ scalebars = <<>> /\ markers = <<>>
    /\ stat_begin = <<>> /\ stat_final = <<>> /\ fields = <<>>
    /\ cameras \in SeqsUpTo(Cameras, MaxCams)
    /\ nproj = None
    /\ chunk_rms = 1
    /\ pc = "cameras"
    /\ step = "" /\ target_percent = 0 /\ target_threshold = 0 /\ max_iter = 0
    /\ rerun = FALSE
    /\ tiepoint_accuracy = "chunk"
    /\ NoRunState

CountLowProjection ==
    /\ pc = "cameras"
    /\ nproj' = getNumProjectionsLowerThan(cameras)
    /\ pc' = "counted"
    /\ UNCHANGED <<cameras, refvars, autovars, memvars, chunkvars, cfgvars, loopvars, beginvars, finalvars,
                   error, roundvars>>

CamerasNext == CountLowProjection

SpecCameras == CamerasInit /\ [][CamerasNext]_vars


\* ------------------------------- specification of the reference statistics
\* dist_error, error.norm(), error_location.norm() of one sample
ErrValues == {0, 1}

\* A scale bar: its source distance (None without one), whether it is enabled
\* (control) or not (check), whether both ends are defined, and its error.
ScaleBars == [distance : {None, 1}, enabled : BOOLEAN, ends : BOOLEAN, err : ErrValues]

\* A marker: whether it has a position, whether it is enabled (control) or
\* not (check), whether it has a reference location, and its error.
Markers == [position : BOOLEAN, enabled : BOOLEAN, location : BOOLEAN, err : ErrValues]

\* A camera as calcTotalCameraError reads it: whether it has a transform, a
\* reference location, whether its reference is enabled, and its error.
RefCameras == [transform : BOOLEAN, location : BOOLEAN, enabled : BOOLEAN, err : ErrValues]

SeqsOfLen(S, n) == {q \in SeqsUpTo(S, n) : Len(q) = n}

\* the chunks with at most MaxRefs scale bars, markers and cameras together
RefChunks ==
    UNION { { <<b, m, c>> : b \in SeqsOfLen(ScaleBars, k[1]), m \in SeqsOfLen(Markers, k[2]),
                            c \in SeqsOfLen(RefCameras, k[3]) } :
            k \in {x \in (0..MaxRefs) \X (0..MaxRefs) \X (0..MaxRefs) :
                       x[1] + x[2] + x[3] <= MaxRefs} }

RECURSIVE SumSquares(_)
SumSquares(q) ==
    IF q = <<>> THEN 0 ELSE Head(q).err * Head(q).err + SumSquares(Tail(q))

\* math.sqrt(s / n) for n > 0, written as the mean square s / n in hundredths
\* (the root is 0 exactly when this is 0, and grows with it)
RootMeanSquare(q) == (100 * SumSquares(q)) \div Len(q)

\* try: return math.sqrt(sums / num); except: return None -- and
\* if n > 0: return math.sqrt(s/n); else: return None
RMSOrNone(q) == IF Len(q) > 0 THEN RootMeanSquare(q) ELSE None

\* calcTotalCameraError (lines 1555-1590)
calcTotalCameraError(cams) ==
    RMSOrNone(SelectSeq(cams, LAMBDA c : c.transform /\ c.location /\ c.enabled))

\* calcScaleBarErrorControl (lines 1593-1623)
calcScaleBarErrorControl(bars) ==
    RMSOrNone(SelectSeq(bars, LAMBDA b : Truthy(b.distance) /\ b.enabled /\ b.ends))

\* A check scale-bar error that is 0 when no scale bar qualifies; C21 is
\* checked to tell it from calcScaleBarErrorCheck.
calcScaleBarErrorCheckOrZero(bars) ==
    LET q == SelectSeq(bars, LAMBDA b : Truthy(b.distance) /\ ~b.enabled /\ b.ends)
    IN  IF Len(q) > 0 THEN RootMeanSquare(q) ELSE 0

\* calcScaleBarErrorCheck (lines 1626-1656)
calcScaleBarErrorCheck(bars) ==
    RMSOrNone(SelectSeq(bars, LAMBDA b : Truthy(b.distance) /\ ~b.enabled /\ b.ends))

\* calcMarkerErrorControlPoint (lines 1660-1712)
calcMarkerErrorControlPoint(ms) ==
    RMSOrNone(SelectSeq(ms, LAMBDA m : m.position /\ m.enabled /\ m.location))

\* calcMarkerErrorCheckPoint (lines 1715-1768)
calcMarkerErrorCheckPoint(ms) ==
    RMSOrNone(SelectSeq(ms, LAMBDA m : m.position /\ ~m.enabled /\ m.location))

ReferenceStats(bars, ms, cams) ==
    [cam_err |-> calcTotalCameraError(cams),
     mark_err_control |-> calcMarkerErrorControlPoint(ms),
     mark_err_check |-> calcMarkerErrorCheckPoint(ms),
     scale_err_control |-> calcScaleBarErrorControl(bars),
     scale_err_check |-> calcScaleBarErrorCheck(bars)]

\* setText(1, '')
EmptyText == <<>>

\* if x_begin and x_final: setText(1, '... ---> ...'.format(...)) else: setText(1, '')
FieldText(b, f) == IF Truthy(b) /\ Truthy(f) THEN <<b, f>> ELSE EmptyText

\* the five reference fields of updateTreeEntries (lines 1463-1488)
ReferenceFields(sb, sf) ==
    [cam_err |-> FieldText(sb.cam_err, sf.cam_err),
     mark_err_control |-> FieldText(sb.mark_err_control, sf.mark_err_control),
     mark_err_check |-> FieldText(sb.mark_err_check, sf.mark_err_check),
     scale_err_control |-> FieldText(sb.scale_err_control, sf.scale_err_control),
     scale_err_check |-> FieldText(sb.scale_err_check, sf.scale_err_check)]

\* the same items with the errors a camera optimization may leave them
Reestimated(q) ==
    { [i \in 1..Len(q) |-> [q[i] EXCEPT !.err = e[i]]] : e \in [1..Len(q) -> ErrValues] }

StatsInit ==
    /\ valid_values = EmptyBag
    /\ n_invalid = 0
    /\ NoAutoRun /\ NoMemory
    /\ \E r \in RefChunks : scalebars = r[1] /\ markers = r[2] /\ cameras = r[3]
    /\ stat_begin = <<>> /\ stat_final = <<>> /\ fields = <<>>
    /\ nproj = None
    /\ chunk_rms = 1
    /\ pc = "refs"
    /\ step = "Reprojection Error" /\ target_percent = 0 /\ target_threshold = 0
    /\ max_iter = 1
    /\ rerun = FALSE
    /\ tiepoint_accuracy = "step"
    /\ NoRunState

\* the statistics of the first iteration (lines 1222-1228)
StatsBegin ==
    /\ pc = "refs"
    /\ stat_begin' = ReferenceStats(scalebars, markers, cameras)
    /\ pc' = "begun"
    /\ UNCHANGED <<cameras, nproj, scalebars, markers, stat_final, fields, autovars, memvars, chunkvars,
                   cfgvars, loopvars, beginvars, finalvars, error, roundvars>>

\* optimizeCameras (lines 1284-1297): the estimates, and so the errors, change
StatsOptimize ==
    /\ pc = "begun"
    /\ scalebars' \in Reestimated(scalebars)
    /\ markers' \in Reestimated(markers)
    /\ cameras' \in Reestimated(cameras)
    /\ pc' = "optimized"
    /\ UNCHANGED <<nproj, stat_begin, stat_final, fields, autovars, memvars, chunkvars,
                   cfgvars, loopvars, beginvars, finalvars, error, roundvars>>

\* the call of updateTreeEntries (lines 1412-1425) with the statistics computed
\* anew, and the texts it sets (lines 1463-1488)
StatsReport ==
    /\ pc \in {"begun", "optimized"}
    /\ stat_final' = ReferenceStats(scalebars, markers, cameras)
    /\ fields' = ReferenceFields(stat_begin, stat_final')
    /\ pc' = "rendered"
    /\ UNCHANGED <<cameras, nproj, scalebars, markers, stat_begin, autovars, memvars, chunkvars,
                   cfgvars, loopvars, beginvars, finalvars, error, roundvars>>

StatsNext == StatsBegin \/ StatsOptimize \/ StatsReport

SpecStats == StatsInit /\ [][StatsNext]_vars


\* ------------------------------------------------ the engine (interface)
\* f.removePoints(threshold): the valid points that stay valid
Survivors(bag, th) == [v \in Values |-> IF v >= th THEN 0 ELSE bag[v]]

ShiftUp(bag) ==
    [v \in Values |-> IF v = 0 THEN (IF MaxVal = 0 THEN bag[0] ELSE 0)
                      ELSE IF v = MaxVal THEN bag[v] + bag[v - 1] ELSE bag[v - 1]]

ShiftDown(bag) ==
    [v \in Values |-> IF v = MaxVal THEN (IF MaxVal = 0 THEN bag[0] ELSE 0)
                      ELSE IF v = 0 THEN bag[0] + bag[1] ELSE bag[v + 1]]

AllAt(bag, c) == [v \in Values |-> IF v = c THEN BagSize(bag) ELSE 0]

\* An optimizeCameras that may also make one removed point valid again; C27
\* is checked to tell it from OptOutcomes.
OptOutcomesRevalidating(bag) ==
    {bag, [bag EXCEPT ![0] = @ + 1]}

\* chunk.optimizeCameras(...): the values the surviving points may have after
\* the bundle adjustment (unchanged, all one step up or down, all alike)
OptOutcomes(bag) ==
    {bag, ShiftUp(bag), ShiftDown(bag)} \cup {AllAt(bag, c) : c \in Values}

\* max(f.values) of a Filter initialised on D (the valid points' values,
\* ascending) and nInv invalid points, whose values the engine does not
\* specify; {} stands for the ValueError of max([])
MaxFilterValues(D, nInv) ==
    IF nInv = 0 THEN (IF Len(D) = 0 THEN {} ELSE {MaxOf(D)})
    ELSE {m \in Values : Len(D) = 0 \/ m >= MaxOf(D)}

\* A calcRMS() that reports "unavailable" for a chunk without valid points
\* and never raises; C26 is checked to tell it from calcRMSFails.
calcRMSUnavailable(bag) == BagSize(bag) < 0

\* calcRMS() divides by the number of observations of valid points: with no
\* valid point it raises ZeroDivisionError
calcRMSFails(bag) == BagSize(bag) = 0

\* ------------------------------------------------------------ the report
\* differences, n_reverse, sum_positive_diff, rev_pts (lines 1357-1362 and
\* 1391-1396)
\* A count that takes every successive difference for a reversal; C12 is
\* checked to tell it from ReversalsFrom.
RECURSIVE ReversalsOfAllDiffs(_, _)
ReversalsOfAllDiffs(h, i) ==
    IF i > Len(h) THEN <<0, 0>>
    ELSE LET d == h[i] - h[i - 1]
             r == ReversalsOfAllDiffs(h, i + 1)
         IN  <<r[1] + 1, r[2] + (IF d >= 0 THEN d ELSE 0)>>

RECURSIVE ReversalsFrom(_, _)
ReversalsFrom(h, i) ==
    IF i > Len(h) THEN <<0, 0>>
    ELSE LET d == h[i] - h[i - 1]
             r == ReversalsFrom(h, i + 1)
         IN  IF d >= 0 THEN <<r[1] + 1, r[2] + d>> ELSE r

\* Diagnostics that take the first history entry for a difference from 0;
\* C11 is checked to tell it from RevPts.
RevPtsFromZero(h) ==
    IF Len(h) = 0 THEN <<0, 0>>
    ELSE <<ReversalsFrom(h, 2)[1] + 1, ReversalsFrom(h, 2)[2] + h[1]>>

RevPts(h) == ReversalsFrom(h, 2)

\* what updateTreeEntries writes into the tree of the step; <<>> is the empty
\* text.  Step 4 has neither "Level" nor "Rev. it. / pts.".
updateTreeEntries(s, N_iter, npb, npl, rb, rf, tb, tf, rev) ==
    [ iterations |-> N_iter,
      points |-> <<npb, npl>>,
      rmse |-> <<rb, rf>>,
      level |-> IF s # RMSEStep /\ tb # 0 /\ tf # 0 THEN <<tb, tf>> ELSE <<>>,
      reversals |-> IF s # RMSEStep THEN rev ELSE <<>> ]

\* ------------------------------------------------------------ executeStep
\* A list on which two rounds in a row leave more than Slack values above a
\* target of 0: Slack + 2 zeros, Slack + 1 ones and two twos.
OscillatingDist ==
    [v \in Values |-> IF v = 0 THEN Slack + 2 ELSE IF v = 1 THEN Slack + 1
                      ELSE IF v = 2 THEN 2 ELSE 0]

\* the lists a run may start from: short ones, and those of MaxPts points
\* that hold at most two distinct values
InitDists ==
    BagsUpTo(SmallLen) \cup
    { b \in [Values -> 0..MaxPts] :
        BagSize(b) = MaxPts /\ Cardinality({v \in Values : b[v] > 0}) <= 2 }
    \cup {OscillatingDist}

Init ==
    /\ valid_values \in InitDists
    /\ n_invalid = 0
    /\ rval = "True" /\ auto_run = {} /\ settings = <<>>
    /\ auto_index = 0 /\ executed = <<>> /\ recorded = <<>>
    /\ NoMemory
    /\ scalebars = <<>> /\ markers = <<>>
    /\ stat_begin = <<>> /\ stat_final = <<>> /\ fields = <<>>
    /\ cameras = <<>> /\ nproj = None
    /\ chunk_rms \in 1..MaxRms
    /\ pc = "idle"
    /\ step = "" /\ target_percent = 0 /\ target_threshold = 0 /\ max_iter = 0
    /\ rerun = FALSE
    /\ tiepoint_accuracy = "chunk"
    /\ NoRunState

\* A run that leaves the chunk the accuracy it had; C30 is checked to tell it
\* from StepAccuracy.
InitialAccuracy(initial, ledit) == initial

\* self.chunk.tiepoint_accuracy = float(self.tiepoint_ledits[step].text())
\* (line 1148); initial_tiepoint_accuracy of line 1146 is not read again
StepAccuracy(initial, ledit) == ledit

\* executeStep up to the loop (lines 1136-1201)
executeStepBegin(s, p, t, m) ==
    /\ pc = "idle"
    /\ step' = s /\ target_percent' = p /\ target_threshold' = t /\ max_iter' = m
    /\ rerun' = FALSE
    /\ tiepoint_accuracy' = StepAccuracy(tiepoint_accuracy, "step")
    /\ fin' = FALSE /\ threshold' = None /\ npoint_list' = <<>>
    /\ pc' = "loop"
    /\ UNCHANGED <<camvars, refvars, autovars, memvars, chunkvars, it, beginvars, finalvars, error, roundvars>>

\* "Before" statistics that every iteration takes anew; C19 is checked to
\* tell them from BeginStats.
BeginStatsEveryIteration(D) ==
    /\ n_points_begin' = Len(D)
    /\ rms_begin' = chunk_rms
    /\ threshold_begin' = MaxOf(D)
    /\ n_0' = CountAbove(D, target_threshold)

\* The "before" statistics of the first iteration (lines 1219-1233)
BeginStats(D) ==
    IF it = 0
    THEN /\ n_points_begin' = Len(D)
         /\ rms_begin' = chunk_rms
         /\ threshold_begin' = MaxOf(D)
         /\ n_0' = CountAbove(D, target_threshold)
    ELSE UNCHANGED beginvars

\* Lines 1205-1275: sample, first-iteration statistics, threshold search.
\* The result names the exception that ends the run there, if any.
SearchOfIteration(D) ==
    IF calcRMSFails(valid_values) /\ (it = 0 \/ step = RMSEStep)
    THEN [threshold |-> threshold, fin |-> fin, error |-> "ZeroDivisionError"]
    ELSE IF it = 0 /\ Len(D) = 0
    THEN \* threshold_begin = max(list_values_valid) at line 1230
         [threshold |-> threshold, fin |-> fin, error |-> "ValueError at max()"]
    ELSE IF step # RMSEStep
    THEN PercentileSearch(D, target_percent, target_threshold, threshold, fin)
    ELSE [threshold |-> RMSESearch(D, target_percent, target_threshold, chunk_rms, threshold).threshold,
          fin |-> fin,
          error |-> RMSESearch(D, target_percent, target_threshold, chunk_rms, threshold).error]

\* the iteration ends in an uncaught exception before any removal
IterationFails(e) ==
    /\ pc' = "failed"
    /\ error' = e
    /\ UNCHANGED <<camvars, refvars, autovars, memvars, chunkvars, cfgvars, loopvars, beginvars, finalvars, roundvars>>

\* if threshold: selectPoints, removePoints, optimizeCameras (lines 1279-1297)
Applied(th) == Truthy(th)

\* The list re-sampled at lines 1316-1323 after a removal.  f is a new Filter
\* only when the scan had set fin (line 1299); otherwise f.values are the
\* values of the iteration's start, read for the points that are still valid.
Resampled(sr, nb) ==
    IF sr.fin THEN SortedValid(nb)
    ELSE SortedValid(Survivors(valid_values, sr.threshold))

\* fin after lines 1299-1334, given the re-sampled list
FinAfterRemoval(sr, list2) ==
    IF step # RMSEStep THEN CountAbove(list2, target_threshold) <= Slack
    ELSE sr.fin

\* fin at line 1351: the RMSE variant sets it when the recomputed RMS is at
\* or below the target (lines 1338-1349)
FinOfIteration(finA, nrms) ==
    IF step = RMSEStep THEN finA \/ nrms <= target_threshold ELSE finA

\* A guard of the block after the loop that compares with max_iter itself;
\* C10 is checked to tell it from ExhaustedBlock.
ExhaustedBlockAtMaxIter(i, f) == i = max_iter /\ f = FALSE

\* if it == (max_iter-1) and fin == False: (line 1382)
ExhaustedBlock(i, f) == i = max_iter - 1 /\ f = FALSE

\* The rest of one loop iteration and, when the loop ends with it, the rest
\* of executeStep (lines 1279-1425), for the search result sr, the values nb
\* the valid points have after the iteration and the RMS nrms after it.
IterationRound(D, sr, nb, nrms) ==
    LET th == sr.threshold
        nrem == IF Applied(th) THEN Len(D) - BagSize(Survivors(valid_values, th)) ELSE 0
        list2 == Resampled(sr, nb)
        hist == IF Applied(th) /\ step # RMSEStep
                THEN Append(npoint_list, CountAbove(list2, target_threshold))
                ELSE npoint_list
        finA == IF Applied(th) THEN FinAfterRemoval(sr, list2) ELSE sr.fin
        finB == FinOfIteration(finA, nrms)
        leaves == finB \/ ~(it + 1 < max_iter)
        exhausted == ~finB /\ ExhaustedBlock(it, finB)
        fresh == step = RMSEStep \/ (Applied(th) /\ sr.fin) \/ exhausted
        tfs == IF fresh THEN MaxFilterValues(SortedValid(nb), n_invalid + nrem)
               ELSE MaxFilterValues(D, n_invalid)
    IN  /\ valid_values' = nb
        /\ n_invalid' = n_invalid + nrem
        /\ chunk_rms' = nrms
        /\ BeginStats(D)
        /\ sampled' = D
        /\ removed' = nrem
        /\ optimized' = IF Applied(th) THEN 1 ELSE 0
        /\ n_removed_run' = n_removed_run + nrem
        /\ n_optimized_run' = n_optimized_run + (IF Applied(th) THEN 1 ELSE 0)
        /\ threshold' = th
        /\ npoint_list' = hist
        /\ UNCHANGED <<camvars, refvars, autovars, memvars, cfgvars>>
        /\ IF calcRMSFails(nb) /\ (step = RMSEStep \/ finB)
           THEN \* calcRMS() at line 1343 or 1353, inside the loop
                /\ pc' = "failed" /\ error' = "ZeroDivisionError"
                /\ fin' = finA /\ it' = it
                /\ UNCHANGED finalvars
           ELSE IF ~leaves
           THEN /\ pc' = "loop" /\ fin' = finB /\ it' = it + 1
                /\ UNCHANGED <<finalvars, error>>
           ELSE IF calcRMSFails(nb) /\ exhausted
           THEN \* calcRMS() at line 1399, after the loop
                /\ pc' = "failed" /\ error' = "ZeroDivisionError after the loop"
                /\ fin' = finB /\ it' = it
                /\ UNCHANGED finalvars
           ELSE IF finB \/ exhausted
           THEN \* the terminal block (lines 1351-1376 or 1382-1408) and the report
                \E tf \in tfs :
                    /\ n_points_left' = BagSize(nb)
                    /\ rms_final' = nrms
                    /\ threshold_final' = tf
                    /\ rev_pts' = RevPts(hist)
                    /\ warned' = exhausted
                    /\ report' = updateTreeEntries(step, it + 1,
                                     IF it = 0 THEN Len(D) ELSE n_points_begin, BagSize(nb),
                                     IF it = 0 THEN chunk_rms ELSE rms_begin, nrms,
                                     IF it = 0 THEN MaxOf(D) ELSE threshold_begin, tf,
                                     RevPts(hist))
                    /\ pc' = "done" /\ fin' = finB /\ it' = it
                    /\ error' = error
           ELSE \* neither terminal block ran: n_points_left is unbound at line 1412
                /\ pc' = "failed" /\ error' = "NameError"
                /\ fin' = finB /\ it' = it
                /\ UNCHANGED finalvars

\* One iteration of the loop of executeStep (line 1203) and, after the last
\* one, the rest of executeStep.
Iteration ==
    /\ pc = "loop"
    /\ LET D == SortedValid(valid_values)
           sr == SearchOfIteration(D)
       IN  IF max_iter < 1
           THEN \* range(int(max_iter)) is empty: `it` is unbound at line 1382
                IterationFails("NameError")
           ELSE IF sr.error # "none" THEN IterationFails(sr.error)
           ELSE IF Applied(sr.threshold)
           THEN \E nb \in OptOutcomes(Survivors(valid_values, sr.threshold)),
                   nrms \in 1..MaxRms : IterationRound(D, sr, nb, nrms)
           ELSE IterationRound(D, sr, valid_values, chunk_rms)

RunButton == \E s \in Steps, p \in Percents, t \in Thresholds, m \in 1..MaxIter :
                 executeStepBegin(s, p, t, m)

\* Fields outside their range, as <<target_percent, target_threshold,
\* max_iter>>: a negative percent, a negative threshold, no iteration.
\* runButtonClicked converts the texts with float() and passes them on.
OutOfRangeFields == {<<0 - 500, 1, 1>>, <<500, 0 - 2, 1>>, <<500, 1, 0>>}

RunButtonOutOfRange ==
    \E s \in Steps, c \in OutOfRangeFields : executeStepBegin(s, c[1], c[2], c[3])

\* A field whose text is not a number: float() raises ValueError in
\* runButtonClicked (lines 1130-1132), before executeStep is entered.
RunButtonNotANumber ==
    /\ pc = "idle"
    /\ \E s \in Steps : step' = s
    /\ pc' = "failed" /\ error' = "ValueError"
    /\ UNCHANGED <<camvars, refvars, autovars, memvars, chunkvars, target_percent, target_threshold, max_iter, rerun,
                   tiepoint_accuracy, loopvars, beginvars, finalvars, roundvars>>

\* The run button of the same step pressed again, with the same fields, right
\* after a run that ended converged: executeStep starts anew on the chunk as
\* the run left it (lines 1121-1201).  The locals of the former run are gone.
RunAgain ==
    /\ pc = "done" /\ fin /\ ~rerun
    /\ rerun' = TRUE
    /\ pc' = "loop"
    /\ it' = 0 /\ fin' = FALSE /\ threshold' = None /\ npoint_list' = <<>>
    /\ n_points_begin' = None /\ rms_begin' = None /\ threshold_begin' = None /\ n_0' = None
    /\ n_points_left' = None /\ rms_final' = None /\ threshold_final' = None
    /\ rev_pts' = <<>> /\ report' = <<>> /\ warned' = FALSE /\ error' = "none"
    /\ sampled' = <<>> /\ removed' = 0 /\ optimized' = 0
    /\ n_removed_run' = 0 /\ n_optimized_run' = 0
    /\ UNCHANGED <<camvars, refvars, autovars, memvars, chunkvars, step, target_percent, target_threshold, max_iter,
                   tiepoint_accuracy>>

Next == RunButton \/ RunButtonOutOfRange \/ RunButtonNotANumber \/ Iteration \/ RunAgain

Spec == Init /\ [][Next]_vars


\* ------------------------------ specification of the two Run buttons
\* self.auto_run_check_boxes.keys() (lines 134-138): the order of runAllSteps
StepOrder ==
    <<"Reconstruction Uncertainty", "Projection Accuracy", "Reprojection Error", RMSEStep>>

\* how the confirmation dialog ends: a click on Yes, on No, or closed
Answers == {"Yes", "No", "closed"}

\* self.rval after askCorrectChunkWindow (lines 1079-1110); it was set to None
\* before the dialog opened
rvalAfter(answer) ==
    IF answer = "Yes" THEN "True" ELSE IF answer = "No" THEN "False" ELSE "None"

\* A gate that only a No closes; C24 is checked to tell it from PastGate.
PastGateUnlessNo(r) == r # "False"

\* if not self.rval: return (lines 1116, 1126)
PastGate(r) == r = "True"

\* the chunks of the auto-run specification
AutoDists == {b \in BagsUpTo(SmallLen) : BagSize(b) = SmallLen}

\* the fields of a tab, the same in every tab
AutoFields == {<<500, 1, 1>>, <<5000, 2, MaxIter>>}

AutoInit ==
    /\ valid_values \in AutoDists
    /\ n_invalid = 0
    /\ NoMemory
    /\ scalebars = <<>> /\ markers = <<>>
    /\ stat_begin = <<>> /\ stat_final = <<>> /\ fields = <<>>
    /\ cameras = <<>> /\ nproj = None
    /\ chunk_rms \in {1, MaxRms}
    /\ pc = "idle"
    /\ step = "" /\ target_percent = 0 /\ target_threshold = 0 /\ max_iter = 0
    /\ rerun = FALSE
    /\ tiepoint_accuracy = "chunk"
    /\ NoRunState
    /\ rval = "None"
    /\ auto_run \in SUBSET Steps
    /\ settings \in {[s \in Steps |-> c] : c \in AutoFields}
    /\ auto_index = 0 /\ executed = <<>> /\ recorded = <<>>

\* executeStep entered for step s with the fields of its tab (lines 1128-1133,
\* 1779-1783), up to the loop (lines 1136-1201); its locals are new
executeStepOfTab(s) ==
    /\ step' = s
    /\ target_percent' = settings[s][1]
    /\ target_threshold' = settings[s][2]
    /\ max_iter' = settings[s][3]
    /\ rerun' = FALSE
    /\ tiepoint_accuracy' = StepAccuracy(tiepoint_accuracy, "step")
    /\ pc' = "loop"
    /\ it' = 0 /\ fin' = FALSE /\ threshold' = None /\ npoint_list' = <<>>
    /\ n_points_begin' = None /\ rms_begin' = None /\ threshold_begin' = None /\ n_0' = None
    /\ n_points_left' = None /\ rms_final' = None /\ threshold_final' = None
    /\ rev_pts' = <<>> /\ report' = <<>> /\ warned' = FALSE /\ error' = "none"
    /\ sampled' = <<>> /\ removed' = 0 /\ optimized' = 0
    /\ n_removed_run' = 0 /\ n_optimized_run' = 0
    /\ UNCHANGED <<camvars, refvars, memvars, chunkvars, auto_run, settings>>

\* everything a handler that returns at the gate leaves alone
runvars == <<cfgvars, loopvars, beginvars, finalvars, error, roundvars>>

\* runButtonClicked (lines 1121-1133)
runButtonClicked ==
    /\ pc = "idle"
    /\ \E s \in Steps, answer \in Answers :
          /\ rval' = rvalAfter(answer)
          /\ IF PastGate(rval')
             THEN /\ executeStepOfTab(s)
                  /\ UNCHANGED <<auto_index, executed, recorded>>
             ELSE UNCHANGED <<camvars, refvars, memvars, chunkvars, auto_run, settings,
                              auto_index, executed, recorded, pc, runvars>>

\* runAllButtonClicked (lines 1111-1119)
runAllButtonClicked ==
    /\ pc = "idle"
    /\ \E answer \in Answers :
          /\ rval' = rvalAfter(answer)
          /\ IF PastGate(rval')
             THEN /\ pc' = "auto" /\ auto_index' = 1
                  /\ UNCHANGED <<camvars, refvars, memvars, chunkvars, auto_run, settings,
                                 executed, recorded, runvars>>
             ELSE UNCHANGED <<camvars, refvars, memvars, chunkvars, auto_run, settings,
                              auto_index, executed, recorded, pc, runvars>>

\* runAllSteps at the head of its loop (lines 1774-1783): past the last step
\* it returns, a checked step is executed, an unchecked one is passed over
runAllSteps ==
    /\ pc = "auto"
    /\ IF auto_index > Len(StepOrder)
       THEN /\ pc' = "returned"
            /\ UNCHANGED <<camvars, refvars, memvars, chunkvars, autovars, runvars>>
       ELSE IF StepOrder[auto_index] \in auto_run
       THEN /\ executeStepOfTab(StepOrder[auto_index])
            /\ executed' = Append(executed, StepOrder[auto_index])
            /\ UNCHANGED <<rval, auto_index, recorded>>
       ELSE /\ auto_index' = auto_index + 1
            /\ UNCHANGED <<camvars, refvars, memvars, chunkvars, rval, auto_run, settings,
                           executed, recorded, pc, runvars>>

\* executeStep has returned to runAllSteps: self.updateChunkMemoryTree()
\* (line 1785), and the loop goes on
updateChunkMemoryTree ==
    /\ pc = "done" /\ auto_index \in 1..Len(StepOrder)
    /\ recorded' = Append(recorded, step)
    /\ auto_index' = auto_index + 1
    /\ pc' = "auto"
    /\ UNCHANGED <<camvars, refvars, memvars, chunkvars, rval, auto_run, settings,
                   executed, runvars>>

AutoNext ==
    runButtonClicked \/ runAllButtonClicked \/ runAllSteps \/ Iteration
        \/ updateChunkMemoryTree

SpecAuto == AutoInit /\ [][AutoNext]_vars


\* ------------------------------------ specification of the chunk memory file
ChunkLabels == {"Chunk 1", "Chunk 2"}

Kinds == {"tab_settings", "tree_results"}

\* for tab_index in range(4) (lines 389, 451)
TabIndices == 0..3

\* what tells one state of a chunk's records from another
Marks == {1, 2}

\* The record of a tab: it differs from tab to tab, from kind to kind and
\* with the mark.
TabRecord(kind, i, mark) == [kind |-> kind, tab |-> i, mark |-> mark]

\* self.chunk_memory: for some chunks, for both kinds, a record for each of
\* the tab indices 0..3 (addChunk, lines 384-441)
Memories ==
    UNION { { [l \in ls |-> [kind \in Kinds |-> [i \in TabIndices |->
                  TabRecord(kind, i, mark[l])]]] : mark \in [ls -> Marks] } :
            ls \in SUBSET ChunkLabels }

\* int(key) for the keys json writes for the tab indices
IntOf(key) == CHOOSE i \in 0..9 : ToString(i) = key

\* json.dump followed by json.load (lines 906-907, 913-914): the labels and
\* the kinds are strings and stay as they are, the integer keys of the tabs
\* come back as strings, the records come back equal
JsonRoundTrip(mem) ==
    [l \in DOMAIN mem |-> [kind \in DOMAIN mem[l] |->
        [key \in {ToString(i) : i \in DOMAIN mem[l][kind]} |-> mem[l][kind][IntOf(key)]]]]

\* new_mem[ch][kind][int(key)] = mem[ch][kind][key]; del new_mem[ch][kind][key]
\* (lines 918-923)
KeysToIntegers(mem) ==
    [ch \in DOMAIN mem |-> [kind \in DOMAIN mem[ch] |->
        [i \in {IntOf(key) : key \in DOMAIN mem[ch][kind]} |-> mem[ch][kind][ToString(i)]]]]

NoFile == [exists |-> FALSE, mem |-> <<>>]

\* The session file is written to the directory of the document (lines
\* 902-906) and opened by its bare name, that is in the working directory
\* (lines 912-913).  Before the write the document's directory holds no
\* session file; the working directory, when it is another one, holds none or
\* one of an earlier session.
MemoryInit ==
    /\ valid_values = EmptyBag
    /\ n_invalid = 0
    /\ NoAutoRun
    /\ scalebars = <<>> /\ markers = <<>>
    /\ stat_begin = <<>> /\ stat_final = <<>> /\ fields = <<>>
    /\ cameras = <<>> /\ nproj = None
    /\ chunk_rms = 1
    /\ pc = "memory"
    /\ step = "" /\ target_percent = 0 /\ target_threshold = 0 /\ max_iter = 0
    /\ rerun = FALSE
    /\ tiepoint_accuracy = "chunk"
    /\ NoRunState
    /\ chunk_memory \in Memories
    /\ cwd \in {"document", "elsewhere"}
    /\ \E old \in {NoFile} \cup {[exists |-> TRUE, mem |-> m] : m \in Memories} :
          files = [d \in {"document", "elsewhere"} |->
                      IF d = "elsewhere" /\ cwd = "elsewhere" THEN old ELSE NoFile]
    /\ written = <<>>

\* writeChunkMemory2File (lines 895-907)
writeChunkMemory2File ==
    /\ pc = "memory"
    /\ files' = [files EXCEPT !["document"] = [exists |-> TRUE, mem |-> chunk_memory]]
    /\ written' = chunk_memory
    /\ pc' = "written"
    /\ UNCHANGED <<camvars, refvars, autovars, chunkvars, chunk_memory, cwd, runvars>>

\* the settings change after the write (updateChunkMemory without its write,
\* or a new window)
changeChunkMemory ==
    /\ pc = "written"
    /\ chunk_memory' \in Memories \ {chunk_memory}
    /\ pc' = "changed"
    /\ UNCHANGED <<camvars, refvars, autovars, chunkvars, files, cwd, written, runvars>>

\* readChunkMemoryFromFile (lines 910-925): open(fname) raises
\* FileNotFoundError when the working directory holds no such file
readChunkMemoryFromFile ==
    /\ pc \in {"written", "changed"}
    /\ IF files[cwd].exists
       THEN /\ chunk_memory' = KeysToIntegers(JsonRoundTrip(files[cwd].mem))
            /\ pc' = "read"
            /\ UNCHANGED error
       ELSE /\ pc' = "failed" /\ error' = "FileNotFoundError"
            /\ UNCHANGED chunk_memory
    /\ UNCHANGED <<camvars, refvars, autovars, chunkvars, files, cwd, written,
                   cfgvars, loopvars, beginvars, finalvars, roundvars>>

MemoryNext == writeChunkMemory2File \/ changeChunkMemory \/ readChunkMemoryFromFile

SpecMemory == MemoryInit /\ [][MemoryNext]_vars

\* =================================================================== claims
\* the fields of the run are not numbers or are outside their range
InvalidConfiguration ==
    \/ error = "ValueError"
    \/ target_percent < 0 \/ target_percent > 100 * mfac
    \/ target_threshold < 0
    \/ max_iter < 1

\* a loop iteration has run past the threshold search
RoundRan == sampled # <<>>

\* the valid points' values now, ascending
CurrentValues == SortedValid(valid_values)

AfterStatsPopulated ==
    /\ n_points_left # None /\ rms_final # None /\ threshold_final # None
    /\ rev_pts # <<>> /\ report # <<>>

\* C1 as stated: for every non-empty ascending list, target_percent and
\* target_threshold, the percentile-descent search never selects a threshold
\* below target_threshold unless no element of the list is at or above it.
C1_NeverBelowTarget ==
    (pc = "searched" /\ error = "none" /\ threshold # None
        /\ \E i \in 1..Len(sampled) : sampled[i] >= target_threshold)
    => threshold >= target_threshold

\* C2 as stated, for a whole-number target_percent >= 1: when a scanned
\* candidate at step N (fraction N/100 percent) is below target_threshold
\* while the one above it is not, the selected threshold is the value at
\* index floor(len * (N + 1) / 10000), the smallest scanned candidate value
\* that is >= target_threshold; when no scanned candidate is below
\* target_threshold it is the value at index
\* floor(len * (100 - target_percent) / 100).
C2_ShallowestCut ==
    (pc = "searched" /\ target_percent % 100 = 0 /\ target_percent >= 100)
    => LET L == Len(sampled)
           lo == 10000 - target_percent
           Cand(N) == sampled[(L * N) \div 10000 + 1]
       IN  IF \E N \in lo..9999 : Cand(N) < target_threshold
           THEN \A N \in lo..9998 :
                    (Cand(N) < target_threshold /\ Cand(N + 1) >= target_threshold)
                    => threshold = Cand(N + 1)
           ELSE threshold = Cand(lo)

\* C3 as stated: in a percentile step, when the back-off index of a candidate
\* below target_threshold is not a valid index of the list, the round has no
\* threshold: it removes no point and runs no optimization.
C3_NoThresholdOnIndexError ==
    (step \in PercentileSteps /\ RoundRan
        /\ \E N \in ScanStops[Len(sampled)] :
              /\ N >= ScanLow(target_percent)
              /\ HitAt(sampled, target_threshold, N)
              /\ BackoffIndex(Len(sampled), N) >= Len(sampled))
    => (threshold = None /\ removed = 0 /\ optimized = 0)

\* C4 as stated: in the percentile variants no round invalidates a point
\* whose value, as sampled at the start of the round, is below
\* target_threshold.  (The removed points are the last `removed` of the
\* ascending sample.)
C4_NoRemovalBelowTarget ==
    (step \in PercentileSteps /\ RoundRan /\ removed > 0)
    => sampled[Len(sampled) - removed + 1] >= target_threshold

C6_ConvergedAtOnce ==
    (step = RMSEStep /\ rms_begin # None /\ rms_begin <= target_threshold)
    => /\ pc = "done" /\ fin /\ it = 0
       /\ report.iterations = 1
       /\ n_removed_run = 0 /\ n_optimized_run = 0
       /\ n_points_left = n_points_begin

C6_Witness ==
    /\ step = RMSEStep /\ pc = "done"
    /\ rms_begin # None /\ rms_begin <= target_threshold

\* C7 as stated, for an iteration that removed and optimized: the run is
\* converged after it if and only if the count of valid points above
\* target_threshold is then <= 10 (percentile variants) or the RMS is then <=
\* target_threshold (RMSE variant).
C7_ConvergedIffCount ==
    (pc \in {"loop", "done"} /\ RoundRan /\ optimized = 1)
    => (fin <=> IF step # RMSEStep
                THEN CountAbove(CurrentValues, target_threshold) <= Slack
                ELSE chunk_rms <= target_threshold)

\* C8 as stated: in the percentile variants, when the maximum value after an
\* iteration's camera optimization exceeds target_threshold the run is not
\* converged in that iteration.
C8_MaxAboveContinues ==
    (step \in PercentileSteps /\ pc \in {"loop", "done"} /\ RoundRan /\ optimized = 1
        /\ BagSize(valid_values) > 0 /\ MaxOf(CurrentValues) > target_threshold)
    => ~fin

\* C9 as stated, for a chunk that holds at least one point and fields within
\* their ranges: a run never ends in an uncaught exception (it ends Converged
\* or ExhaustedIterations).
C9_AlwaysTerminal ==
    ~(pc = "failed" /\ ~InvalidConfiguration /\ BagSize(valid_values) + n_invalid > 0)

LoopLeftWithoutFin ==
    \/ pc = "done" /\ ~fin
    \/ pc = "failed" /\ error \in {"NameError", "ZeroDivisionError after the loop"}

C11_ReversalsBelowIterations ==
    pc = "done"
    => /\ rev_pts[1] <= report.iterations - 1
       /\ (max_iter = 1 /\ ~fin) => (warned /\ rev_pts[1] = 0)

C11_Witness == pc = "done" /\ report.iterations = 2 /\ rev_pts[1] = 1

\* the sum of the non-negative successive differences of h[1..k]
RECURSIVE NonNegDiffSum(_, _)
NonNegDiffSum(h, k) ==
    IF k < 2 THEN 0
    ELSE NonNegDiffSum(h, k - 1) + (IF h[k] >= h[k - 1] THEN h[k] - h[k - 1] ELSE 0)

\* C12: at the end of a run, on either terminal path, the reversal count is
\* the number of history entries that are not below their predecessor and
\* the cumulative magnitude is the sum of those non-negative differences of
\* the history of above-threshold counts.
C12_ReversalsFromHistory ==
    pc = "done"
    => /\ rev_pts[1] = Cardinality({i \in 2..Len(npoint_list) :
                                       npoint_list[i] >= npoint_list[i - 1]})
       /\ rev_pts[2] = NonNegDiffSum(npoint_list, Len(npoint_list))

C12_Witness ==
    /\ pc = "done" /\ Len(npoint_list) = 2
    /\ npoint_list[2] > npoint_list[1] /\ rev_pts[2] >= 1

\* C13 as stated: when a percentile step is run again right after a run that
\* reported Converged, with the same configuration, the search selects no
\* threshold and no point is removed by the end of the second iteration at
\* the latest: a run that has ended within two iterations has removed
\* nothing in its last one.
C13_RerunSelectsNoThreshold ==
    (rerun /\ step \in PercentileSteps /\ pc = "done" /\ it <= 1)
    => (removed = 0 /\ optimized = 0)

\* C14 as stated: a run started with a non-numeric or out-of-range
\* target_percent, target_threshold or max_iterations is rejected before the
\* reconstruction state is touched: the tie-point accuracy is as found, no
\* point is removed and no optimization runs.
C14_RejectedBeforeMutation ==
    (pc # "idle" /\ InvalidConfiguration)
    => /\ pc = "failed"
       /\ tiepoint_accuracy = "chunk"
       /\ n_removed_run = 0 /\ n_optimized_run = 0 /\ n_invalid = 0

C16_ThresholdAlwaysApplied ==
    [][ (pc = "loop" /\ pc' \in {"loop", "done"})
        => IF threshold' # None
              THEN /\ removed' = BagSize(valid_values)
                                     - BagSize(Survivors(valid_values, threshold'))
                   /\ optimized' = 1
              ELSE /\ removed' = 0
                   /\ optimized' = 0 ]_vars

\* C17: in a percentile-variant iteration that removes points, the count
\* appended to the history is the number of valid points whose value after
\* that iteration's camera optimization is above target_threshold.
C17_CountFromResample ==
    [][ (pc = "loop" /\ pc' \in {"loop", "done"} /\ step \in PercentileSteps
            /\ optimized' = 1)
        => /\ Len(npoint_list') = Len(npoint_list) + 1
           /\ npoint_list'[Len(npoint_list')]
                  = CountAbove(SortedValid(valid_values'), target_threshold) ]_vars

\* The list of the scenario: 1, 2, ..., 10
ScenarioList == [i \in 1..10 |-> i]

ScenarioSearched ==
    /\ pc = "searched" /\ sampled = ScenarioList
    /\ target_percent = 2000 /\ target_threshold = 5

\* C18 as stated: for the list 1..10, target_percent 20 and target_threshold
\* 5 the first-round search selects the threshold 8.
C18_ScenarioThresholdEight == ScenarioSearched => threshold = 8

\* C18 amended: for the list 1..10, target_percent 20 and target_threshold 5
\* no scanned candidate is below 5, the search ends without declaring
\* convergence and selects the value at 0-based index 8, which is 9; the
\* points with value >= 9 are the top 2 of 10.
C18_ScenarioThresholdNine ==
    ScenarioSearched
    => /\ threshold = 9 /\ threshold = sampled[8 + 1]
       /\ fin = FALSE /\ error = "none"
       /\ Cardinality({i \in 1..Len(sampled) : sampled[i] >= threshold}) = 2

C18_Witness == ScenarioSearched /\ threshold # None

\* C19: the "before" statistics are taken once per run, by the first
\* iteration, from the state the run found (no point removed and no
\* optimization run yet), and no later iteration changes them.
C19_BeforeStatsOnce ==
    [][ (pc = "loop" /\ pc' \in {"loop", "done"})
        => IF it = 0
           THEN /\ n_removed_run = 0 /\ n_optimized_run = 0
                /\ n_points_begin = None /\ rms_begin = None
                /\ n_points_begin' = BagSize(valid_values)
                /\ rms_begin' = chunk_rms
                /\ threshold_begin' = MaxOf(SortedValid(valid_values))
                /\ n_0' = CountAbove(SortedValid(valid_values), target_threshold)
           ELSE /\ n_points_begin # None
                /\ UNCHANGED beginvars ]_vars

C19_Witness ==
    /\ pc = "done" /\ it = 1 /\ n_removed_run > 0
    /\ n_points_begin = BagSize(valid_values) + n_invalid
    /\ n_points_begin > BagSize(valid_values)
    /\ rms_begin # chunk_rms

\* C20 as stated: getNumProjectionsLowerThan returns the number of cameras
\* that are not keyframes and have fewer than 100 projections onto valid
\* points or that have no pose (each such camera once); a keyframe camera
\* with a pose is not among them.
C20_LowProjectionCount ==
    pc = "counted"
    => nproj = Cardinality({i \in 1..Len(cameras) :
                   \/ (cameras[i].type # "Keyframe"
                          /\ cameras[i].valid_proj < MinProjections)
                   \/ ~cameras[i].transform})

\* C21: a reference statistic without any qualifying sample (camera error,
\* control and check marker error, control and check scale-bar error) is
\* None before and after the run, nothing is raised, the report is written and
\* its field is the empty text; without scale bars that holds of both
\* scale-bar errors.
C21_UnavailableRendersEmpty ==
    pc = "rendered"
    => LET NoneAndEmpty(x) ==
               /\ stat_begin[x] = None /\ stat_final[x] = None
               /\ fields[x] = EmptyText
           Idx(q) == 1..Len(q)
       IN  /\ error = "none"
           /\ ({i \in Idx(cameras) : cameras[i].transform /\ cameras[i].location
                    /\ cameras[i].enabled} = {}) => NoneAndEmpty("cam_err")
           /\ ({i \in Idx(markers) : markers[i].position /\ markers[i].location
                    /\ markers[i].enabled} = {}) => NoneAndEmpty("mark_err_control")
           /\ ({i \in Idx(markers) : markers[i].position /\ markers[i].location
                    /\ ~markers[i].enabled} = {}) => NoneAndEmpty("mark_err_check")
           /\ ({i \in Idx(scalebars) : scalebars[i].distance # None /\ scalebars[i].ends
                    /\ scalebars[i].enabled} = {}) => NoneAndEmpty("scale_err_control")
           /\ ({i \in Idx(scalebars) : scalebars[i].distance # None /\ scalebars[i].ends
                    /\ ~scalebars[i].enabled} = {}) => NoneAndEmpty("scale_err_check")
           /\ scalebars = <<>>
                  => (NoneAndEmpty("scale_err_control") /\ NoneAndEmpty("scale_err_check"))

C21_Witness ==
    /\ pc = "rendered" /\ scalebars = <<>>
    /\ fields.scale_err_control = EmptyText /\ fields.scale_err_check = EmptyText
    /\ fields.mark_err_control # EmptyText /\ fields.cam_err = EmptyText

\* the checked steps in the order step 1, 2, 3, 4
RECURSIVE CheckedFrom(_)
CheckedFrom(i) ==
    IF i > Len(StepOrder) THEN <<>>
    ELSE (IF StepOrder[i] \in auto_run THEN <<StepOrder[i]>> ELSE <<>>) \o CheckedFrom(i + 1)

\* runAllSteps is over: it returned, or an exception left it
AutoRunOver == auto_index >= 1 /\ pc \in {"returned", "failed"}

\* C22 as stated: runAllSteps executes exactly the checked steps, in the order
\* step 1, 2, 3, 4; each of them reaches its terminal state and has its
\* results recorded before the next one begins.
C22_AllCheckedStepsRun ==
    /\ AutoRunOver => (executed = CheckedFrom(1) /\ recorded = executed)
    /\ (auto_index >= 1 /\ pc = "loop")
           => (Len(executed) = Len(recorded) + 1
                  /\ \A i \in 1..Len(recorded) : recorded[i] = executed[i])

\* C23 as stated: after writeChunkMemory2File followed by
\* readChunkMemoryFromFile the chunk memory holds, for every chunk and both
\* kinds, the integer keys 0..3 and the records that were written.
C23_MemoryRoundTrip ==
    (written # <<>> /\ pc \in {"read", "failed"})
    => /\ pc = "read"
       /\ DOMAIN chunk_memory = DOMAIN written
       /\ \A l \in DOMAIN chunk_memory : \A kind \in Kinds :
              /\ DOMAIN chunk_memory[l][kind] = TabIndices
              /\ \A i \in TabIndices : chunk_memory[l][kind][i] = written[l][kind][i]

\* C24: a click on a step's Run button or on the auto-run Run button starts
\* a run, and so changes the chunk, only when the dialog was answered Yes;
\* after a No or a closed dialog no step executes and the chunk (its points,
\* its RMS, its tie-point accuracy) is as it was.
C24_RunsOnlyAfterYes ==
    [][ /\ (pc' # "idle" \/ chunkvars' # chunkvars
               \/ tiepoint_accuracy' # tiepoint_accuracy \/ executed' # executed)
           => rval' = "True"
        /\ (pc = "idle" /\ rval' # "True")
           => (pc' = "idle" /\ UNCHANGED <<chunkvars, tiepoint_accuracy, executed, runvars>>)
      ]_vars

C24_Witness == pc = "idle" /\ rval = "False" /\ tiepoint_accuracy = "chunk"

\* C25 as stated, for target_percent > 0: the scan goes down to the candidate
\* at fraction 100 - target_percent, also when target_percent is not a whole
\* number; so when no element of the list is below target_threshold the
\* search ends with the value at that candidate's index.
C25_ScanReachesTargetPercent ==
    (pc = "searched" /\ target_percent > 0
        /\ \A i \in 1..Len(sampled) : sampled[i] >= target_threshold)
    => threshold = sampled[ScanIndex(Len(sampled), 100 * mfac - target_percent) + 1]

\* C26: calcRMS with no observation of a valid point is a hard error.  A run
\* never completes on a chunk without valid points: a completed run has a
\* final RMS, and a run that calcRMS ended with ZeroDivisionError has neither
\* a final RMS nor a report.
C26_ZeroObservationsAbortRun ==
    /\ pc = "done" => (BagSize(valid_values) > 0 /\ rms_final # None)
    /\ (pc = "failed" /\ error \in {"ZeroDivisionError", "ZeroDivisionError after the loop"})
           => (BagSize(valid_values) = 0 /\ rms_final = None /\ report = <<>>)

\* a round removed every valid point and calcRMS ended the run
C26_Witness ==
    /\ pc = "failed" /\ error = "ZeroDivisionError"
    /\ BagSize(valid_values) = 0 /\ n_removed_run > 0

\* C27: a run only turns valid points invalid.  In every step the number of
\* valid points does not grow, the number of invalid points does not shrink
\* and their sum stays the same (what leaves the valid points is exactly what
\* joins the invalid ones); the report of a completed run shows a final point
\* count that is at most the initial one.
C27_OnlyValidToInvalid ==
    [][ /\ BagSize(valid_values') <= BagSize(valid_values)
        /\ n_invalid' >= n_invalid
        /\ BagSize(valid_values') + n_invalid' = BagSize(valid_values) + n_invalid
        /\ (pc' = "done" => /\ report'.points[2] <= report'.points[1]
                            /\ report'.points[2] = BagSize(valid_values')) ]_vars

\* a run of more than one iteration that removed points and completed
C27_Witness ==
    /\ pc = "done" /\ it >= 1 /\ n_removed_run > 0 /\ n_invalid > 0
    /\ report.points[2] < report.points[1]

\* C28 as stated: in the RMSE variant, for a chunk with valid points and a
\* target_percent in [0, 100], 0 included, the cut index is below the length
\* of the list and the run does not end in the IndexError of the lookup.
C28_RMSECutIndexValid ==
    (step = RMSEStep /\ target_percent \in 0..(100 * mfac) /\ BagSize(valid_values) > 0)
    => /\ RMSEIndex(BagSize(valid_values), target_percent) < BagSize(valid_values)
       /\ ~(pc = "failed" /\ error = "IndexError")

\* C29 as stated: for max_iter >= 1 every run that has ended ran exactly one
\* terminal block to its end (the Converged block when fin is set, also in
\* the last allowed iteration, the ExhaustedIterations block otherwise), so
\* that the final point count, level, reversal text and RMS are defined and
\* updateTreeEntries has written the report.
C29_ExactlyOneTerminalBlock ==
    (max_iter >= 1 /\ pc \in {"done", "failed"})
    => /\ pc = "done"
       /\ warned = ~fin
       /\ n_points_left # None /\ threshold_final # None /\ rms_final # None
       /\ report # <<>>

\* C30: executeStep gives the chunk the tie-point accuracy of the step's field
\* before the first iteration; no iteration and no terminal block changes it,
\* and the accuracy the chunk had before the run is not put back: during and
\* after the run, ended by an exception or not, the chunk has the step's value.
C30_AccuracySetOnceNotRestored ==
    [][ /\ (pc = "idle" /\ pc' = "loop")
              => (tiepoint_accuracy' = "step" /\ n_removed_run' = 0 /\ sampled' = <<>>)
        /\ pc \in {"loop", "done"}
              => (tiepoint_accuracy = "step" /\ tiepoint_accuracy' = "step") ]_vars

\* a completed run of more than one iteration on a chunk that had its own
\* accuracy beforehand
C30_Witness ==
    pc = "done" /\ it >= 1 /\ n_optimized_run > 0 /\ tiepoint_accuracy = "step"

====
